---- MODULE Spec2Model ----
(***************************************************************************)
(* PortfolioManager (src/portfolio_manager.py): a JSON-backed list of      *)
(* ticker symbols with an interactive menu and a command-line dispatcher.  *)
(*                                                                         *)
(* Strings are sequences of ASCII codes, so that upper(), lower(),         *)
(* strip(), json.dump and json.load are computed character by character.   *)
(***************************************************************************)
EXTENDS Integers, Sequences, FiniteSets, TLC

\* Size of the alphabet the ticker characters are drawn from (A.., a..).
NumLetters == 2
\* Largest number of ticker arguments after the verb on a command line.
MaxArgs == 2

\* Operating-system processes running the program on the same backing file.
Procs == {1, 2}

-----------------------------------------------------------------------------
(* Strings *)

UpperLetters == {64 + i : i \in 1..NumLetters}
LowerLetters == {96 + i : i \in 1..NumLetters}

\* "ab", "aB", "AB": one symbol of two characters in three casings.
TwoCharTickers == {<<97, 98>>, <<97, 66>>, <<65, 66>>}

\* The ticker strings a user types.
RawTickers == {<<c>> : c \in UpperLetters \cup LowerLetters} \cup TwoCharTickers

\* str.upper() on ASCII text.
upper(s) == [i \in 1..Len(s) |-> IF s[i] \in 97..122 THEN s[i] - 32 ELSE s[i]]

\* str.lower() on ASCII text.
lower(s) == [i \in 1..Len(s) |-> IF s[i] \in 65..90 THEN s[i] + 32 ELSE s[i]]

Whitespace == {9, 10, 13, 32}

RECURSIVE lstrip(_)
lstrip(s) == IF s # <<>> /\ Head(s) \in Whitespace THEN lstrip(Tail(s)) ELSE s

RECURSIVE rstrip(_)
rstrip(s) ==
  IF s # <<>> /\ s[Len(s)] \in Whitespace THEN rstrip(SubSeq(s, 1, Len(s) - 1)) ELSE s

\* str.strip()
strip(s) == rstrip(lstrip(s))

\* x in list
In(x, s) == \E i \in 1..Len(s) : s[i] = x

\* list.remove(x): deletes the first occurrence of x (x is in the list).
ListRemove(s, x) ==
  LET i == CHOOSE k \in 1..Len(s) : s[k] = x /\ \A j \in 1..(k - 1) : s[j] # x
  IN  SubSeq(s, 1, i - 1) \o SubSeq(s, i + 1, Len(s))

-----------------------------------------------------------------------------
(* The config document and its JSON text *)

KeyPortfolio == <<112, 111, 114, 116, 102, 111, 108, 105, 111>>
KeyStocks == <<115, 116, 111, 99, 107, 115>>

DefaultConfig == [portfolio |-> [stocks |-> <<>>]]

\* The value of self.config before load_config has returned.
NoConfig == [portfolio |-> [stocks |-> <<>>]]

Quote(s) == <<34>> \o s \o <<34>>
Indent(n) == [i \in 1..n |-> 32]

RECURSIVE DumpItems(_)
DumpItems(s) ==
  IF s = <<>> THEN <<>>
  ELSE <<10>> \o Indent(6) \o Quote(Head(s))
       \o (IF Len(s) > 1 THEN <<44>> ELSE <<>>) \o DumpItems(Tail(s))

DumpArray(s) ==
  IF s = <<>> THEN <<91, 93>>
  ELSE <<91>> \o DumpItems(s) \o <<10>> \o Indent(4) \o <<93>>

\* json.dump(config, f, indent=2): the text written for a config document.
json_dump(cfg) ==
  <<123, 10>> \o Indent(2) \o Quote(KeyPortfolio) \o <<58, 32, 123, 10>>
  \o Indent(4) \o Quote(KeyStocks) \o <<58, 32>> \o DumpArray(cfg.portfolio.stocks)
  \o <<10>> \o Indent(2) \o <<125, 10, 125>>

\* The positions of the double quotes of a text, in increasing order.
Quotes(t) ==
  LET IsQuote(i) == t[i] = 34
  IN  SelectSeq([i \in 1..Len(t) |-> i], IsQuote)

\* The k-th string literal of a text whose quotes are at q (no escapes occur
\* in ticker symbols).
Literal(t, q, k) == SubSeq(t, q[2 * k - 1] + 1, q[2 * k] - 1)

\* The tokens between the string literals of a text whose quotes are at q,
\* from the k-th gap on: whitespace is skipped and every literal is left as "".
\* Gap 0 runs to the first quote, gap k from the closing quote of literal k
\* to the next opening quote, or to the end of the text.
RECURSIVE GapsFrom(_, _, _)
GapsFrom(t, q, k) ==
  LET NotSpace(c) == c \notin Whitespace
      from == IF k = 0 THEN 1 ELSE q[2 * k] + 1
      to == IF 2 * k + 1 <= Len(q) THEN q[2 * k + 1] - 1 ELSE Len(t)
      gap == SelectSeq(SubSeq(t, from, to), NotSpace)
  IN  IF 2 * k + 2 <= Len(q)
      THEN gap \o <<34, 34>> \o GapsFrom(t, q, k + 1)
      ELSE gap

\* The text with the content of its string literals and the whitespace
\* between its tokens dropped.
Skeleton(t, q) == GapsFrom(t, q, 0)

\* The document for a text whose quotes are at q and whose skeleton is sk.
Decode(text, q, sk) ==
  LET pre == <<123, 34, 34, 58, 123, 34, 34, 58, 91>>
      suf == <<93, 125, 125>>
      n == Len(sk) - Len(pre) - Len(suf)
      items == (n + 1) \div 3
      shape ==
        /\ n >= 0
        /\ Len(q) % 2 = 0
        /\ SubSeq(sk, 1, Len(pre)) = pre
        /\ SubSeq(sk, Len(pre) + n + 1, Len(sk)) = suf
        /\ n = 0 \/ n % 3 = 2
        /\ \A j \in 1..n : sk[Len(pre) + j] = IF j % 3 = 0 THEN 44 ELSE 34
  IN  IF shape /\ Literal(text, q, 1) = KeyPortfolio /\ Literal(text, q, 2) = KeyStocks
      THEN [ok |-> TRUE,
            val |-> [portfolio |->
                       [stocks |-> [k \in 1..items |-> Literal(text, q, k + 2)]]]]
      ELSE [ok |-> FALSE, val |-> NoConfig]

\* json.load(f) for a config document {"portfolio": {"stocks": [...]}}:
\* ok = FALSE is the decode error.
json_load(text) ==
  LET q == Quotes(text) IN Decode(text, q, Skeleton(text, q))

\* The backing file: absent, or present with some text.
NoFile == [exists |-> FALSE, text |-> <<>>]
FileOf(text) == [exists |-> TRUE, text |-> text]

-----------------------------------------------------------------------------
(* PortfolioManager's methods, as functions of the memory and the file *)

\* save_config as it would be if it re-read the file and merged its own list
\* into the one found there.
save_config_merge(cfg, f) ==
  LET cur == json_load(f.text).val.portfolio.stocks
      New(x) == ~In(x, cur)
  IN  FileOf(json_dump([portfolio |->
                          [stocks |-> cur \o SelectSeq(cfg.portfolio.stocks, New)]]))

\* PortfolioManager.save_config: overwrites the file with the whole document.
save_config(cfg, f) == FileOf(json_dump(cfg))

\* load_config as it would be if a file that does not parse were replaced
\* by the default document.
load_config_default_on_error(f) ==
  IF f.exists /\ json_load(f.text).ok
  THEN [raised |-> FALSE, config |-> json_load(f.text).val, file |-> f,
        wrote |-> FALSE, load |-> "parsed"]
  ELSE [raised |-> FALSE, config |-> DefaultConfig,
        file |-> FileOf(json_dump(DefaultConfig)), wrote |-> TRUE, load |-> "created"]

\* PortfolioManager.load_config: the loaded document and the file afterwards.
load_config(f) ==
  IF f.exists
  THEN LET r == json_load(f.text)
       IN  IF r.ok
           THEN [raised |-> FALSE, config |-> r.val, file |-> f, wrote |-> FALSE,
                 load |-> "parsed"]
           ELSE [raised |-> TRUE, config |-> NoConfig, file |-> f, wrote |-> FALSE,
                 load |-> "failed"]
  ELSE [raised |-> FALSE, config |-> DefaultConfig,
        file |-> FileOf(json_dump(DefaultConfig)), wrote |-> TRUE, load |-> "created"]

\* StockInfoManager.update_ticker: returns the info, or raises when the
\* ticker cannot be resolved.
update_ticker(ticker, resolves) == [raised |-> ~resolves]

\* add_ticker as it would be if it appended and saved before the enrichment.
add_ticker_commit_first(cfg, f, raw, resolves) ==
  LET ticker == upper(raw)
      c2 == [cfg EXCEPT !.portfolio.stocks = Append(@, ticker)]
  IN  IF ~In(ticker, cfg.portfolio.stocks)
      THEN [raised |-> ~resolves, config |-> c2, file |-> FileOf(json_dump(c2)),
            wrote |-> TRUE, enriched |-> TRUE,
            outcome |-> IF resolves THEN "added" ELSE "enrich_failed"]
      ELSE [raised |-> FALSE, config |-> cfg, file |-> f, wrote |-> FALSE,
            enriched |-> FALSE, outcome |-> "present"]

\* add_ticker as it would be without ticker.upper().
add_ticker_no_upper(cfg, f, raw, resolves) ==
  IF ~In(raw, cfg.portfolio.stocks)
  THEN IF ~resolves
       THEN [raised |-> TRUE, config |-> cfg, file |-> f, wrote |-> FALSE,
             enriched |-> TRUE, outcome |-> "enrich_failed"]
       ELSE LET c2 == [cfg EXCEPT !.portfolio.stocks = Append(@, raw)]
            IN  [raised |-> FALSE, config |-> c2, file |-> FileOf(json_dump(c2)),
                 wrote |-> TRUE, enriched |-> TRUE, outcome |-> "added"]
  ELSE [raised |-> FALSE, config |-> cfg, file |-> f, wrote |-> FALSE,
        enriched |-> FALSE, outcome |-> "present"]

\* add_ticker as it would be if the "already present" branch saved too.
add_ticker_always_saves(cfg, f, raw, resolves) ==
  LET ticker == upper(raw)
  IN  IF ~In(ticker, cfg.portfolio.stocks)
      THEN IF ~resolves
           THEN [raised |-> TRUE, config |-> cfg, file |-> f, wrote |-> FALSE,
                 enriched |-> TRUE, outcome |-> "enrich_failed"]
           ELSE LET c2 == [cfg EXCEPT !.portfolio.stocks = Append(@, ticker)]
                IN  [raised |-> FALSE, config |-> c2, file |-> FileOf(json_dump(c2)),
                     wrote |-> TRUE, enriched |-> TRUE, outcome |-> "added"]
      ELSE [raised |-> FALSE, config |-> cfg, file |-> FileOf(json_dump(cfg)),
            wrote |-> TRUE, enriched |-> FALSE, outcome |-> "present"]

\* PortfolioManager.add_ticker
add_ticker(cfg, f, raw, resolves) ==
  LET ticker == upper(raw)
  IN  IF ~In(ticker, cfg.portfolio.stocks)
      THEN IF update_ticker(ticker, resolves).raised
           THEN [raised |-> TRUE, config |-> cfg, file |-> f, wrote |-> FALSE,
                 enriched |-> TRUE, outcome |-> "enrich_failed"]
           ELSE LET c2 == [cfg EXCEPT !.portfolio.stocks = Append(@, ticker)]
                IN  [raised |-> FALSE, config |-> c2, file |-> save_config(c2, f),
                     wrote |-> TRUE, enriched |-> TRUE, outcome |-> "added"]
      ELSE [raised |-> FALSE, config |-> cfg, file |-> f, wrote |-> FALSE,
            enriched |-> FALSE, outcome |-> "present"]

\* remove_ticker as it would be without ticker.upper().
remove_ticker_case_sensitive(cfg, f, raw) ==
  IF In(raw, cfg.portfolio.stocks)
  THEN LET c2 == [cfg EXCEPT !.portfolio.stocks = ListRemove(@, raw)]
       IN  [raised |-> FALSE, config |-> c2, file |-> FileOf(json_dump(c2)),
            wrote |-> TRUE, enriched |-> FALSE, outcome |-> "removed"]
  ELSE [raised |-> FALSE, config |-> cfg, file |-> f, wrote |-> FALSE,
        enriched |-> FALSE, outcome |-> "not_found"]

\* remove_ticker as it would be without its save_config() call.
remove_ticker_no_save(cfg, f, raw) ==
  LET ticker == upper(raw)
  IN  IF In(ticker, cfg.portfolio.stocks)
      THEN [raised |-> FALSE,
            config |-> [cfg EXCEPT !.portfolio.stocks = ListRemove(@, ticker)],
            file |-> f, wrote |-> FALSE, enriched |-> FALSE, outcome |-> "removed"]
      ELSE [raised |-> FALSE, config |-> cfg, file |-> f, wrote |-> FALSE,
            enriched |-> FALSE, outcome |-> "not_found"]

\* PortfolioManager.remove_ticker
remove_ticker(cfg, f, raw) ==
  LET ticker == upper(raw)
  IN  IF In(ticker, cfg.portfolio.stocks)
      THEN LET c2 == [cfg EXCEPT !.portfolio.stocks = ListRemove(@, ticker)]
           IN  [raised |-> FALSE, config |-> c2, file |-> save_config(c2, f),
                wrote |-> TRUE, enriched |-> FALSE, outcome |-> "removed"]
      ELSE [raised |-> FALSE, config |-> cfg, file |-> f, wrote |-> FALSE,
            enriched |-> FALSE, outcome |-> "not_found"]

\* PortfolioManager.list_portfolio: reads the list, prints, changes nothing.
list_portfolio(cfg, f) ==
  [raised |-> FALSE, config |-> cfg, file |-> f, wrote |-> FALSE, enriched |-> FALSE,
   outcome |-> IF cfg.portfolio.stocks = <<>> THEN "empty" ELSE "listed"]

\* PortfolioManager.update_all: asks the collaborator for a batch refresh.
update_all(cfg, f) ==
  [raised |-> FALSE, config |-> cfg, file |-> f, wrote |-> FALSE, enriched |-> FALSE,
   outcome |-> IF cfg.portfolio.stocks = <<>> THEN "empty" ELSE "updated"]

-----------------------------------------------------------------------------
(* The command line *)

CmdAdd == <<97, 100, 100>>
CmdRemove == <<114, 101, 109, 111, 118, 101>>
CmdList == <<108, 105, 115, 116>>
CmdUpdate == <<117, 112, 100, 97, 116, 101>>

\* argv[1] as typed: the four verbs, "ADD", and the unknown verb "x".
Verbs == {CmdAdd, <<65, 68, 68>>, CmdRemove, CmdList, CmdUpdate, <<120>>}

TickerArgs == UNION {[1..n -> RawTickers] : n \in 0..MaxArgs}

\* sys.argv[1:]
Argv == {<<>>} \cup {<<v>> \o ts : v \in Verbs, ts \in TickerArgs}

\* dispatch as it would be without the len(sys.argv) > 2 tests.
dispatch_no_arg_check(args) ==
  IF Len(args) > 0
  THEN LET cmd == lower(args[1])
       IN  IF cmd = CmdAdd THEN "add"
           ELSE IF cmd = CmdRemove THEN "remove"
           ELSE IF cmd = CmdList THEN "list"
           ELSE IF cmd = CmdUpdate THEN "update"
           ELSE "usage"
  ELSE "menu"

\* The branch main() takes for sys.argv[1:] = args.
dispatch(args) ==
  IF Len(args) > 0
  THEN LET cmd == lower(args[1])
       IN  IF cmd = CmdAdd /\ Len(args) > 1 THEN "add"
           ELSE IF cmd = CmdRemove /\ Len(args) > 1 THEN "remove"
           ELSE IF cmd = CmdList THEN "list"
           ELSE IF cmd = CmdUpdate THEN "update"
           ELSE "usage"
  ELSE "menu"

\* What a user types at "Enter ticker": a ticker, padded or not, or nothing.
MenuInputs ==
  RawTickers \cup {<<>>, <<32>>} \cup {<<32>> \o t \o <<32>> : t \in RawTickers}

-----------------------------------------------------------------------------
(* State *)

VARIABLES
  file,     \* the backing file config.json
  config,   \* config[p]: self.config of process p's manager
  pc,       \* pc[p]: "idle", "menu", "batch", "exited" or "crashed"
  command,  \* command[p]: the verb of the running batch ("add"/"remove"/"none")
  argv,     \* argv[p]: the ticker arguments the batch loop has not reached yet
  last,     \* what the last step did and reported; for main, sys.argv[1] as
            \* typed (verb) and len(sys.argv) - 1 (nargs) (observer)
  writer    \* the process that wrote the file last, 0 if none has (observer)

vars == <<file, config, pc, command, argv, last, writer>>

Stocks(p) == config[p].portfolio.stocks

UpperTickers == {upper(t) : t \in RawTickers}

\* The stock lists the manager keeps: upper-cased, duplicate-free.
ValidLists ==
  {s \in UNION {[1..n -> UpperTickers] : n \in 0..Cardinality(UpperTickers)} :
     \A i, j \in 1..Len(s) : i # j => s[i] # s[j]}

\* Texts json.load rejects: an empty file and a truncated document.
CorruptTexts == {<<>>, <<123, 10>>}

InitFiles ==
  {NoFile} \cup {FileOf(t) : t \in CorruptTexts}
  \cup {FileOf(json_dump([portfolio |-> [stocks |-> s]])) : s \in ValidLists}

NoStep ==
  [proc |-> 0, op |-> "none", called |-> "none", arg |-> <<>>, verb |-> <<>>,
   nargs |-> 0, load |-> "none", outcome |-> "none", wrote |-> FALSE, enriched |-> FALSE]

InitProcs ==
  /\ config = [p \in Procs |-> NoConfig]
  /\ pc = [p \in Procs |-> "idle"]
  /\ command = [p \in Procs |-> "none"]
  /\ argv = [p \in Procs |-> <<>>]
  /\ last = NoStep
  /\ writer = 0

Init == file \in InitFiles /\ InitProcs

\* The effect of one manager call r on the memory, the file and the observers.
Apply(p, op, called, arg, r) ==
  /\ config' = [config EXCEPT ![p] = r.config]
  /\ file' = r.file
  /\ writer' = IF r.wrote THEN p ELSE writer
  /\ last' = [proc |-> p, op |-> op, called |-> called, arg |-> arg, verb |-> <<>>,
              nargs |-> 0, load |-> "none", outcome |-> r.outcome, wrote |-> r.wrote,
              enriched |-> r.enriched]

\* A front-end step that calls no manager method.
NoCall(p, op, outcome) ==
  /\ last' = [NoStep EXCEPT !.proc = p, !.op = op, !.outcome = outcome]
  /\ UNCHANGED <<file, config, writer>>

-----------------------------------------------------------------------------
(* main(): construction of the manager and the dispatch on sys.argv *)

Main(p, argvs) ==
  /\ pc[p] = "idle"
  /\ \E ld \in {load_config(file)}, args \in argvs :
     LET kind == dispatch(args)
         verb == IF args = <<>> THEN <<>> ELSE args[1]
         r == IF kind = "list" THEN list_portfolio(ld.config, ld.file)
              ELSE IF kind = "update" THEN update_all(ld.config, ld.file)
              ELSE [raised |-> FALSE, config |-> ld.config, file |-> ld.file,
                    wrote |-> FALSE, enriched |-> FALSE,
                    outcome |-> IF kind = "usage" THEN "usage" ELSE "dispatched"]
     IN  IF ld.raised
         THEN /\ pc' = [pc EXCEPT ![p] = "crashed"]
              /\ last' = [NoStep EXCEPT !.proc = p, !.op = "main", !.verb = verb,
                                        !.nargs = Len(args), !.load = ld.load,
                                        !.outcome = "parse_error"]
              /\ UNCHANGED <<file, config, command, argv, writer>>
         ELSE /\ config' = [config EXCEPT ![p] = r.config]
              /\ file' = r.file
              /\ writer' = IF ld.wrote \/ r.wrote THEN p ELSE writer
              /\ last' = [proc |-> p, op |-> "main",
                          called |-> IF kind = "list" THEN "list_portfolio"
                                     ELSE IF kind = "update" THEN "update_all"
                                     ELSE "none",
                          arg |-> <<>>, verb |-> verb, nargs |-> Len(args),
                          load |-> ld.load,
                          outcome |-> r.outcome, wrote |-> ld.wrote \/ r.wrote,
                          enriched |-> r.enriched]
              /\ pc' = [pc EXCEPT ![p] = IF kind = "menu" THEN "menu"
                                         ELSE IF kind \in {"add", "remove"} THEN "batch"
                                         ELSE "exited"]
              /\ command' = [command EXCEPT ![p] = IF kind \in {"add", "remove"}
                                                   THEN kind ELSE "none"]
              /\ argv' = [argv EXCEPT ![p] = IF kind \in {"add", "remove"}
                                             THEN Tail(args) ELSE <<>>]

\* for ticker in sys.argv[2:]: manager.add_ticker(ticker)
BatchAdd(p) ==
  /\ pc[p] = "batch" /\ command[p] = "add" /\ argv[p] # <<>>
  /\ \E resolves \in BOOLEAN :
       LET r == add_ticker(config[p], file, Head(argv[p]), resolves)
       IN  /\ Apply(p, "batch", "add_ticker", Head(argv[p]), r)
           /\ argv' = [argv EXCEPT ![p] = Tail(@)]
           /\ pc' = [pc EXCEPT ![p] = IF r.raised THEN "crashed"
                                      ELSE IF Tail(argv[p]) = <<>> THEN "exited"
                                      ELSE "batch"]
           /\ UNCHANGED command

\* for ticker in sys.argv[2:]: manager.remove_ticker(ticker)
BatchRemove(p) ==
  /\ pc[p] = "batch" /\ command[p] = "remove" /\ argv[p] # <<>>
  /\ LET r == remove_ticker(config[p], file, Head(argv[p]))
     IN  /\ Apply(p, "batch", "remove_ticker", Head(argv[p]), r)
         /\ argv' = [argv EXCEPT ![p] = Tail(@)]
         /\ pc' = [pc EXCEPT ![p] = IF Tail(argv[p]) = <<>> THEN "exited" ELSE "batch"]
         /\ UNCHANGED command

-----------------------------------------------------------------------------
(* interactive_menu(): one iteration of the loop per action *)

\* choice '1'
MenuList(p) ==
  /\ pc[p] = "menu"
  /\ Apply(p, "1", "list_portfolio", <<>>, list_portfolio(config[p], file))
  /\ UNCHANGED <<pc, command, argv>>

\* choice '2'
MenuAdd(p) ==
  /\ pc[p] = "menu"
  /\ \E inp \in MenuInputs, resolves \in BOOLEAN :
       LET ticker == upper(strip(inp))
           r == add_ticker(config[p], file, ticker, resolves)
       IN  IF ticker # <<>>
           THEN /\ Apply(p, "2", "add_ticker", ticker, r)
                /\ pc' = [pc EXCEPT ![p] = IF r.raised THEN "crashed" ELSE "menu"]
           ELSE /\ NoCall(p, "2", "no_input")
                /\ UNCHANGED pc
  /\ UNCHANGED <<command, argv>>

\* choice '3'
MenuRemove(p) ==
  /\ pc[p] = "menu"
  /\ \E inp \in MenuInputs :
       LET ticker == upper(strip(inp))
       IN  IF ticker # <<>>
           THEN Apply(p, "3", "remove_ticker", ticker, remove_ticker(config[p], file, ticker))
           ELSE NoCall(p, "3", "no_input")
  /\ UNCHANGED <<pc, command, argv>>

\* choice '4'
MenuUpdate(p) ==
  /\ pc[p] = "menu"
  /\ Apply(p, "4", "update_all", <<>>, update_all(config[p], file))
  /\ UNCHANGED <<pc, command, argv>>

\* choice '5'
MenuExport(p) ==
  /\ pc[p] = "menu"
  /\ last' = [NoStep EXCEPT !.proc = p, !.op = "5", !.called = "export_readable",
                            !.outcome = "exported"]
  /\ UNCHANGED <<file, config, writer, pc, command, argv>>

\* choice '6'
MenuExit(p) ==
  /\ pc[p] = "menu"
  /\ NoCall(p, "6", "goodbye")
  /\ pc' = [pc EXCEPT ![p] = "exited"]
  /\ UNCHANGED <<command, argv>>

\* any other choice
MenuInvalid(p) ==
  /\ pc[p] = "menu"
  /\ NoCall(p, "other", "invalid_option")
  /\ UNCHANGED <<pc, command, argv>>

\* The program is run again once the previous run has ended.
Restart(p) ==
  /\ pc[p] \in {"exited", "crashed"}
  /\ pc' = [pc EXCEPT ![p] = "idle"]
  /\ config' = [config EXCEPT ![p] = NoConfig]
  /\ command' = [command EXCEPT ![p] = "none"]
  /\ argv' = [argv EXCEPT ![p] = <<>>]
  /\ last' = [NoStep EXCEPT !.proc = p, !.op = "restart"]
  /\ UNCHANGED <<file, writer>>

-----------------------------------------------------------------------------
(* Specifications *)

\* One process at a time on the backing file (the supported usage).
Next ==
  \/ Main(1, Argv)
  \/ BatchAdd(1)
  \/ BatchRemove(1)
  \/ MenuList(1)
  \/ MenuAdd(1)
  \/ MenuRemove(1)
  \/ MenuUpdate(1)
  \/ MenuExport(1)
  \/ MenuExit(1)
  \/ MenuInvalid(1)
  \/ Restart(1)

Spec == Init /\ [][Next]_vars

\* Two one-shot invocations "add T" / "remove T" racing on the same file.
RaceArgv == {<<v, t>> : v \in {CmdAdd, CmdRemove}, t \in RawTickers}

RaceInit ==
  /\ file \in {FileOf(json_dump([portfolio |-> [stocks |-> s]])) : s \in ValidLists}
  /\ InitProcs

RaceNext ==
  \E p \in Procs :
    \/ Main(p, RaceArgv)
    \/ BatchAdd(p)
    \/ BatchRemove(p)

SpecRace == RaceInit /\ [][RaceNext]_vars

-----------------------------------------------------------------------------
(* Properties *)

\* The stock list the backing file holds, when the file parses.
FileStocks(f) == json_load(f.text).val.portfolio.stocks

NoDuplicates(s) == \A i, j \in 1..Len(s) : i # j => s[i] # s[j]

\* C1: when update_ticker fails during add_ticker(t), the in-memory list and
\* the backing file are exactly what they were before the call, nothing is
\* written, and t is in neither of them.
C1_AddTickerAtomic ==
  [][(last'.called = "add_ticker" /\ last'.outcome = "enrich_failed") =>
       /\ config' = config
       /\ file' = file
       /\ ~last'.wrote
       /\ ~In(upper(last'.arg), config'[last'.proc].portfolio.stocks)
       /\ ~In(upper(last'.arg), FileStocks(file'))]_vars

\* An add_ticker call of a process holding a non-empty list whose enrichment failed.
C1_Witness ==
  /\ last.called = "add_ticker"
  /\ last.outcome = "enrich_failed"
  /\ Stocks(last.proc) # <<>>

\* C2: a batch "add T1 ... Tn" is not aborted by a failing enrichment: when
\* the invocation has ended, every ticker argument the loop has not reached
\* is in the stock list already, or is the ticker whose enrichment failed.
C2_BatchIndependence ==
  \A p \in Procs :
    (pc[p] \in {"exited", "crashed"} /\ command[p] = "add" /\ last.proc = p) =>
      \A i \in 1..Len(argv[p]) :
        \/ In(upper(argv[p][i]), Stocks(p))
        \/ upper(argv[p][i]) = upper(last.arg)

\* C3: every element of a manager's stock list is upper-cased and occurs once.
C3_UpperNoDuplicates ==
  \A p \in Procs :
    /\ \A i \in 1..Len(Stocks(p)) : upper(Stocks(p)[i]) = Stocks(p)[i]
    /\ NoDuplicates(Stocks(p))

\* A ticker given in lower case was reported already present, in a list of
\* two or more tickers.
C3_Witness ==
  /\ last.called = "add_ticker"
  /\ last.outcome = "present"
  /\ last.arg # upper(last.arg)
  /\ Len(Stocks(last.proc)) >= 2

\* C4: an add of an absent ticker whose enrichment succeeds yields the old
\* list with upper(raw) appended at the end; a remove of a present ticker
\* yields the old list without upper(raw), the rest in its previous order.
C4_OrderedListReference ==
  [][LET p == last'.proc
         old == config[p].portfolio.stocks
         new == config'[p].portfolio.stocks
         t == upper(last'.arg)
         Other(x) == x # t
     IN  /\ (last'.called = "add_ticker" /\ ~In(t, old)
               /\ last'.outcome # "enrich_failed") =>
              /\ last'.outcome = "added"
              /\ Len(new) = Len(old) + 1
              /\ SubSeq(new, 1, Len(old)) = old
              /\ new[Len(new)] = t
         /\ (last'.called = "remove_ticker" /\ In(t, old)) =>
              /\ last'.outcome = "removed"
              /\ new = SelectSeq(old, Other)]_vars

\* The list reads [B, AB] right after an add, as it does after add A, add B,
\* remove A, add AB.
C4_Witness ==
  /\ last.outcome = "added"
  /\ Stocks(last.proc) = <<<<66>>, <<65, 66>>>>

\* C5: wherever the next input is accepted or the run has ended normally, the
\* backing file parses to exactly the in-memory document (same tickers, same
\* order), so a manager constructed on it loads the same list.
C5_WriteThrough ==
  (pc[1] \in {"menu", "batch", "exited"}) =>
    load_config(file) = [raised |-> FALSE, config |-> config[1], file |-> file,
                         wrote |-> FALSE, load |-> "parsed"]

\* Back at the menu after a removal that left two or more tickers.
C5_Witness ==
  /\ pc[1] = "menu"
  /\ last.outcome = "removed"
  /\ Len(Stocks(1)) >= 2

\* C6: an existing backing file is written only by the step that appended to
\* or removed from the stock list; "already present", "not found",
\* list_portfolio and update_all change neither the memory nor the file and
\* write nothing; an add of a ticker already present requests no enrichment.
C6_NoPersistWithoutMutation ==
  [][LET p == last'.proc
     IN  /\ (last'.wrote /\ file.exists) =>
              /\ last'.outcome \in {"added", "removed"}
              /\ config'[p].portfolio.stocks # config[p].portfolio.stocks
              /\ file' = FileOf(json_dump(config'[p]))
         /\ (last'.wrote /\ ~file.exists) => last'.load = "created"
         /\ (last'.outcome \in {"present", "not_found"}) =>
              /\ config' = config /\ file' = file /\ ~last'.wrote
         /\ (last'.outcome = "present") => ~last'.enriched
         /\ (last'.called \in {"list_portfolio", "update_all"}) =>
              /\ last'.load = "none" => config' = config
              /\ last'.load # "created" => (file' = file /\ ~last'.wrote)]_vars

\* An add of a ticker already present, in a list of two or more tickers.
C6_Witness ==
  /\ last.outcome = "present"
  /\ ~last.wrote
  /\ Len(Stocks(last.proc)) >= 2

\* The command lines that are usage errors: an unknown verb, or add/remove
\* without a ticker.
IsUsageError(verb, nargs) ==
  /\ nargs > 0
  /\ \/ lower(verb) \notin {CmdAdd, CmdRemove, CmdList, CmdUpdate}
     \/ lower(verb) \in {CmdAdd, CmdRemove} /\ nargs = 1

\* C7 as stated: a usage-error invocation prints the usage text, calls no
\* manager operation and does not write the backing file, whatever the state
\* of that file.
C7_UsageNoWrite ==
  [][(last'.op = "main" /\ IsUsageError(last'.verb, last'.nargs)) =>
       /\ last'.outcome = "usage"
       /\ last'.called = "none"
       /\ ~last'.wrote
       /\ file' = file]_vars

\* C7 amended: a usage-error invocation calls no manager operation; on a file
\* that parses it prints the usage text and writes nothing; on an absent file
\* the construction of the manager creates the default document before the
\* usage text is printed; on a corrupt file the load fails before anything is
\* printed and the file is left as it was.
C7_UsageNoWriteAmended ==
  [][(last'.op = "main" /\ IsUsageError(last'.verb, last'.nargs)) =>
       /\ last'.called = "none"
       /\ pc'[last'.proc] \in {"exited", "crashed"}
       /\ IF ~file.exists
          THEN /\ last'.outcome = "usage"
               /\ file'.exists
               /\ json_load(file'.text) = [ok |-> TRUE, val |-> DefaultConfig]
          ELSE IF json_load(file.text).ok
          THEN last'.outcome = "usage" /\ ~last'.wrote /\ file' = file
          ELSE last'.outcome = "parse_error" /\ ~last'.wrote /\ file' = file]_vars

\* "add" without a ticker on a file that holds a non-empty list.
C7_Witness ==
  /\ last.op = "main"
  /\ last.verb = CmdAdd /\ last.nargs = 1
  /\ last.outcome = "usage"
  /\ file.exists /\ FileStocks(file) # <<>>

\* C8: load_config creates and returns the default document when the file is
\* absent; returns the content unchanged and writes nothing when the file
\* parses; and when the file does not parse the failure propagates, the file
\* is left as it was and no default is substituted in memory or on disk.
C8_LoadAbsenceVsCorruption ==
  [][LET p == last'.proc
     IN  (last'.op = "main") =>
           IF ~file.exists
           THEN /\ last'.load = "created"
                /\ file'.exists
                /\ json_load(file'.text) = [ok |-> TRUE, val |-> DefaultConfig]
                /\ config'[p] = DefaultConfig
           ELSE \E doc \in {json_load(file.text)} :
                  IF doc.ok
                  THEN /\ last'.load = "parsed"
                       /\ file' = file /\ ~last'.wrote
                       /\ config'[p] = doc.val
                  ELSE /\ last'.load = "failed" /\ last'.outcome = "parse_error"
                       /\ pc'[p] = "crashed"
                       /\ file' = file /\ ~last'.wrote
                       /\ config' = config]_vars

\* A construction that failed on a corrupt file.
C8_Witness ==
  /\ last.op = "main"
  /\ last.load = "failed"
  /\ pc[last.proc] = "crashed"
  /\ file.exists /\ ~json_load(file.text).ok

\* C9: the interactive loop is left only through choice '6'.
C9_LoopEndsOnlyOnExit ==
  [][\A p \in Procs : (pc[p] = "menu" /\ pc'[p] # "menu") => last'.op = "6"]_vars

\* C10: the file always holds the whole in-memory document of the process
\* that saved last, whatever another process had written before.
C10_LastWriterWins ==
  (writer # 0) => file = FileOf(json_dump(config[writer]))

\* A lost write: both invocations have ended normally, each holds a ticker the
\* other does not, and the file is the list of the one that saved last.
C10_Witness ==
  /\ pc[1] = "exited" /\ pc[2] = "exited"
  /\ writer = 2
  /\ last.outcome \in {"added", "removed"}
  /\ \E i \in 1..Len(Stocks(1)) : ~In(Stocks(1)[i], Stocks(2))
  /\ \E i \in 1..Len(Stocks(2)) : ~In(Stocks(2)[i], Stocks(1))
  /\ FileStocks(file) = Stocks(2)

====
